---- MODULE Spec2Model ----
(***************************************************************************)
(* A model of efficientdet/det_model_fn.py: the learning-rate schedule     *)
(* functions, the derived schedule parameters, detection_loss, reg_l2_loss *)
(* and _model_fn as the sequence of statements it executes, followed by    *)
(* the runtime executing the train op it built.                            *)
(*                                                                         *)
(* Real numbers are exact rationals <<n, d>> (d > 0, lowest terms): the    *)
(* float32 rounding of the tensors is not modelled.                        *)
(***************************************************************************)
EXTENDS Integers, Sequences, FiniteSets, TLC

VARIABLES
  params,         \* the training parameters record (a dict: key -> value)
  model_name,     \* the model name handed to get_model_fn
  mode,           \* the mode of the current _model_fn invocation
  pc,             \* the statement of _model_fn (or of the runtime) to run next
  trace,          \* the computations performed by the current invocation, in order
  learning_rate,  \* the local learning_rate of _model_fn
  model_fn,       \* the model function get_model_fn returned
  locals,         \* _model_fn's locals: the train-op graph (ops, edges), train_op,
                  \* eval_metrics, scaffold_fn, training_hooks; in SpecLoss the
                  \* arguments and locals of detection_loss
  result,         \* the EstimatorSpec returned (or the error raised)
  ran,            \* the ops the runtime has run in the current training iteration
  global_step,    \* the global step variable
  weights,        \* the trainable variables: the number of writes to them, and
                  \* in SpecReg the list of their names and values
  bn_stats,       \* number of writes to the batch-norm moving statistics
  ema_shadow,     \* EMA shadow variable -> number of writes
  iterations      \* number of training iterations the runtime has completed

vars == <<params, model_name, model_fn, mode, pc, trace, learning_rate, locals,
          result, ran, global_step, weights, bn_stats, ema_shadow, iterations>>

invocationVars == <<model_fn, mode, trace, learning_rate, locals, result>>
variableVars == <<weights, bn_stats, ema_shadow>>

(***************************************************************************)
(* Bounds of the model.                                                    *)
(***************************************************************************)
MaxStep == 4
MaxGlobalStep == 2

None == "<None>"

(***************************************************************************)
(* Exact rational arithmetic standing for the float arithmetic.            *)
(***************************************************************************)
Abs(x) == IF x < 0 THEN -x ELSE x

RECURSIVE GCD(_, _)
GCD(a, b) == IF b = 0 THEN a ELSE GCD(b, a % b)

Rat(n, d) ==
  LET g == GCD(Abs(n), Abs(d))
      s == IF d < 0 THEN -1 ELSE 1
  IN  <<(s * n) \div g, (s * d) \div g>>

RInt(i) == <<i, 1>>
RAdd(a, b) == Rat(a[1] * b[2] + b[1] * a[2], a[2] * b[2])
RSub(a, b) == Rat(a[1] * b[2] - b[1] * a[2], a[2] * b[2])
RMul(a, b) == Rat(a[1] * b[1], a[2] * b[2])
RDiv(a, b) == Rat(a[1] * b[2], a[2] * b[1])
RLt(a, b) == a[1] * b[2] < b[1] * a[2]

RECURSIVE RPow(_, _)
RPow(a, k) == IF k = 0 THEN RInt(1) ELSE RMul(a, RPow(a, k - 1))

\* Python's int() of a float: truncation toward zero.
IntTrunc(r) == IF r[1] >= 0 THEN r[1] \div r[2] ELSE -((-r[1]) \div r[2])

\* tf.cast(step, tf.float32)
ToFloat(i) == RInt(i)

(***************************************************************************)
(* tf.cos(np.pi * x): exact where the cosine of a rational multiple of pi  *)
(* is rational (0, 1/3, 1/2, 2/3, 1 mod 2), and elsewhere the Taylor       *)
(* polynomial of degree 6 in fixed point with CosScale digits.             *)
(***************************************************************************)
CosScale == 10000

CosTaylor(r) ==
  LET x  == (31416 * r[1]) \div r[2]
      y  == (x * x) \div CosScale
      t3 == CosScale - y \div 30
      t2 == CosScale - ((y * t3) \div CosScale) \div 12
      t1 == CosScale - ((y * t2) \div CosScale) \div 2
  IN  Rat(t1, CosScale)

\* r in [0, 1/2]
CosFirstQuadrant(r) ==
  IF r = <<0, 1>> THEN RInt(1)
  ELSE IF r = <<1, 3>> THEN <<1, 2>>
  ELSE IF r = <<1, 2>> THEN RInt(0)
  ELSE CosTaylor(r)

CosPi(x) ==
  LET a == Rat(Abs(x[1]), x[2])
      m == Rat(a[1] % (2 * a[2]), a[2])                    \* a mod 2
      h == IF RLt(RInt(1), m) THEN RSub(RInt(2), m) ELSE m \* in [0, 1]
  IN  IF RLt(<<1, 2>>, h)
        THEN RSub(RInt(0), CosFirstQuadrant(RSub(RInt(1), h)))
        ELSE CosFirstQuadrant(h)

(***************************************************************************)
(* update_learning_rate_schedule_parameters                                *)
(***************************************************************************)
_DEFAULT_BATCH_SIZE == 64

EffectiveBatchSizeAllDistributed(p) ==
  IF p.strategy \in {"tpu", "horovod"} THEN p.batch_size * p.num_shards
  ELSE p.batch_size

EffectiveBatchSize(p) ==
  IF p.strategy = "tpu" THEN p.batch_size * p.num_shards ELSE p.batch_size

steps_per_epoch(p) == Rat(p.num_examples_per_epoch, EffectiveBatchSize(p))

\* Round half up: the nearest integer.
RoundNearest(r) == (2 * r[1] + r[2]) \div (2 * r[2])

EpochToStepRounded(epochs, spe) == RoundNearest(RMul(epochs, spe))

EpochToStep(epochs, spe) == IntTrunc(RMul(epochs, spe))

\* d1 @@ d2 with d1 taking precedence: a dict update.
Update(d1, d2) ==
  [k \in (DOMAIN d1) \cup (DOMAIN d2) |-> IF k \in DOMAIN d1 THEN d1[k] ELSE d2[k]]

DerivedKeys == {"adjusted_learning_rate", "lr_warmup_step", "first_lr_drop_step",
                "second_lr_drop_step", "total_steps"}

update_storing_batch_size(p) ==
  LET batch_size == EffectiveBatchSize(p)
      spe == steps_per_epoch(p)
  IN  Update(
        [batch_size |-> batch_size,
         adjusted_learning_rate |->
           RDiv(RMul(p.learning_rate, RInt(batch_size)), RInt(_DEFAULT_BATCH_SIZE)),
         lr_warmup_step      |-> EpochToStep(p.lr_warmup_epoch, spe),
         first_lr_drop_step  |-> EpochToStep(p.first_lr_drop_epoch, spe),
         second_lr_drop_step |-> EpochToStep(p.second_lr_drop_epoch, spe),
         total_steps         |-> EpochToStep(p.num_epochs, spe)],
        p)

update_learning_rate_schedule_parameters(p) ==
  LET batch_size == EffectiveBatchSize(p)
      spe == steps_per_epoch(p)
  IN  Update(
        [adjusted_learning_rate |->
           RDiv(RMul(p.learning_rate, RInt(batch_size)), RInt(_DEFAULT_BATCH_SIZE)),
         lr_warmup_step      |-> EpochToStep(p.lr_warmup_epoch, spe),
         first_lr_drop_step  |-> EpochToStep(p.first_lr_drop_epoch, spe),
         second_lr_drop_step |-> EpochToStep(p.second_lr_drop_epoch, spe),
         total_steps         |-> EpochToStep(p.num_epochs, spe)],
        p)

(***************************************************************************)
(* The learning-rate schedules.  tf.where(c, a, b) selects elementwise, so *)
(* the branch not selected (a division by a zero lr_warmup_step included)  *)
(* does not reach the result.                                              *)
(***************************************************************************)
LinearWarmup(adjusted_lr, lr_warmup_init, lr_warmup_step, step) ==
  RAdd(lr_warmup_init,
       RMul(RDiv(ToFloat(step), RInt(lr_warmup_step)),
            RSub(adjusted_lr, lr_warmup_init)))

StepwiseOverrideStrict(lr, adjusted_learning_rate, mult, start_global_step, step) ==
  IF step <= start_global_step THEN lr ELSE RMul(adjusted_learning_rate, mult)

\* One pass of the loop over lr_schedule.
StepwiseOverride(lr, adjusted_learning_rate, mult, start_global_step, step) ==
  IF step < start_global_step THEN lr ELSE RMul(adjusted_learning_rate, mult)

lr_schedule(lr_warmup_step, first_lr_drop_step, second_lr_drop_step) ==
  << <<RInt(1), lr_warmup_step>>,
     <<Rat(1, 10), first_lr_drop_step>>,
     <<Rat(1, 100), second_lr_drop_step>> >>

stepwise_lr_schedule(adjusted_learning_rate, lr_warmup_init, lr_warmup_step, first_lr_drop_step, second_lr_drop_step, step) ==
  LET sched == lr_schedule(lr_warmup_step, first_lr_drop_step, second_lr_drop_step)
      lr0 == IF step < lr_warmup_step
               THEN LinearWarmup(adjusted_learning_rate, lr_warmup_init,
                                 lr_warmup_step, step)
               ELSE adjusted_learning_rate
      lr1 == StepwiseOverride(lr0, adjusted_learning_rate, sched[1][1], sched[1][2], step)
      lr2 == StepwiseOverride(lr1, adjusted_learning_rate, sched[2][1], sched[2][2], step)
      lr3 == StepwiseOverride(lr2, adjusted_learning_rate, sched[3][1], sched[3][2], step)
  IN  lr3

CosineDecay(adjusted_lr, total_steps, step) ==
  RMul(RMul(<<1, 2>>, adjusted_lr),
       RAdd(RInt(1), CosPi(RDiv(ToFloat(step), RInt(total_steps)))))

cosine_lr_schedule_offset(adjusted_lr, lr_warmup_init, lr_warmup_step, total_steps, step) ==
  IF step < lr_warmup_step
    THEN LinearWarmup(adjusted_lr, lr_warmup_init, lr_warmup_step, step)
    ELSE RMul(RMul(<<1, 2>>, adjusted_lr),
              RAdd(RInt(1), CosPi(Rat(step - lr_warmup_step, total_steps))))

cosine_lr_schedule(adjusted_lr, lr_warmup_init, lr_warmup_step, total_steps, step) ==
  IF step < lr_warmup_step
    THEN LinearWarmup(adjusted_lr, lr_warmup_init, lr_warmup_step, step)
    ELSE CosineDecay(adjusted_lr, total_steps, step)

polynomial_lr_schedule(adjusted_lr, lr_warmup_init, lr_warmup_step, power, total_steps, step) ==
  IF step < lr_warmup_step
    THEN LinearWarmup(adjusted_lr, lr_warmup_init, lr_warmup_step, step)
    ELSE RMul(adjusted_lr,
              RPow(RSub(RInt(1), RDiv(ToFloat(step), RInt(total_steps))), power))

LrDecayMethods == {"stepwise", "cosine", "polynomial", "constant"}

ValueError(msg) == [error |-> "ValueError", message |-> msg]
RuntimeError(msg) == [error |-> "RuntimeError", message |-> msg]
IsError(x) == DOMAIN x = {"error", "message"}

\* Returns the rate, or the ValueError it raises.
learning_rate_schedule(p, step) ==
  LET lr_decay_method == p.lr_decay_method IN
  IF lr_decay_method = "stepwise" THEN
    [rate |-> stepwise_lr_schedule(p.adjusted_learning_rate, p.lr_warmup_init,
                                   p.lr_warmup_step, p.first_lr_drop_step,
                                   p.second_lr_drop_step, step)]
  ELSE IF lr_decay_method = "cosine" THEN
    [rate |-> cosine_lr_schedule(p.adjusted_learning_rate, p.lr_warmup_init,
                                 p.lr_warmup_step, p.total_steps, step)]
  ELSE IF lr_decay_method = "polynomial" THEN
    [rate |-> polynomial_lr_schedule(p.adjusted_learning_rate, p.lr_warmup_init,
                                     p.lr_warmup_step, p.poly_lr_power,
                                     p.total_steps, step)]
  ELSE IF lr_decay_method = "constant" THEN
    [rate |-> p.adjusted_learning_rate]
  ELSE ValueError("unknown lr_decay_method: " \o lr_decay_method)

(***************************************************************************)
(* Values shared by the specifications.                                    *)
(***************************************************************************)
NoValue == [none |-> TRUE]

PREDICT == "infer"
TRAIN == "train"
EVAL == "eval"
ModeKeys == {TRAIN, EVAL, PREDICT}

EmaVars == {"kernel", "bias"}

NoLocals ==
  [optimizer |-> None, ops |-> {}, deps |-> {}, train_op |-> None,
   eval_metrics |-> None, scaffold_fn |-> NoValue, training_hooks |-> {}]

\* The default hyperparameters, before update_learning_rate_schedule_parameters.
BaseParams ==
  [strategy |-> "tpu", mixed_precision |-> FALSE, is_training_bn |-> TRUE,
   batch_size |-> 8, num_shards |-> 8, learning_rate |-> Rat(8, 100),
   num_examples_per_epoch |-> 128,
   lr_warmup_init |-> Rat(8, 1000), lr_warmup_epoch |-> RInt(1),
   first_lr_drop_epoch |-> RInt(2), second_lr_drop_epoch |-> RInt(3),
   num_epochs |-> RInt(4), poly_lr_power |-> 1, lr_decay_method |-> "cosine",
   optimizer |-> "sgd", momentum |-> Rat(9, 10), clip_gradients_norm |-> 10,
   moving_average_decay |-> Rat(9998, 10000), weight_decay |-> Rat(4, 100000),
   ckpt |-> None, backbone_ckpt |-> None, backbone_name |-> "efficientnet-b0",
   ckpt_var_scope |-> None, min_level |-> 3, max_level |-> 4,
   nms_configs |-> [max_nms_inputs |-> "0"]]

\* No invocation in progress, nothing run yet.
Fresh ==
  /\ model_fn = None
  /\ mode = None
  /\ trace = <<>>
  /\ learning_rate = NoValue
  /\ locals = NoLocals
  /\ result = NoValue
  /\ ran = {}
  /\ weights = 0
  /\ bn_stats = 0
  /\ ema_shadow = [v \in EmaVars |-> 0]
  /\ iterations = 0

Idle == model_name = <<"efficientdet", "d0">> /\ Fresh

(***************************************************************************)
(* SpecSched: learning_rate_schedule applied to schedule parameters and    *)
(* steps drawn from bounded sets.                                          *)
(***************************************************************************)
SchedGrid ==
  { Update([adjusted_learning_rate |-> Rat(8, 100), lr_warmup_init |-> wi,
            lr_warmup_step |-> w, first_lr_drop_step |-> f,
            second_lr_drop_step |-> sd, total_steps |-> t, lr_decay_method |-> m],
           BaseParams) :
      wi \in {RInt(0), Rat(8, 1000)}, w \in 0..MaxStep, f \in 0..MaxStep,
      sd \in 0..MaxStep, t \in 1..MaxStep,
      m \in LrDecayMethods \cup {"exponential"} }

ExampleParams ==
  Update([adjusted_learning_rate |-> Rat(8, 100), lr_warmup_init |-> RInt(0),
          lr_warmup_step |-> 500, first_lr_drop_step |-> 15000,
          second_lr_drop_step |-> 20000, total_steps |-> 30000,
          lr_decay_method |-> "stepwise"],
         BaseParams)

ExampleSteps == {0, 250, 499, 500, 14999, 15000, 19999, 20000}

InitSched ==
  /\ \/ params \in SchedGrid /\ global_step \in 0..(MaxStep + 1)
     \/ params = ExampleParams /\ global_step \in ExampleSteps
  /\ pc = "schedule"
  /\ Idle

EvalSchedule ==
  /\ pc = "schedule"
  /\ learning_rate' = learning_rate_schedule(params, global_step)
  /\ pc' = "scheduled"
  /\ UNCHANGED <<params, model_name, model_fn, mode, trace, locals, result, ran,
                 global_step, weights, bn_stats, ema_shadow, iterations>>

NextSched == EvalSchedule

SpecSched == InitSched /\ [][NextSched]_vars

(***************************************************************************)
(* SpecParams: update_learning_rate_schedule_parameters applied, any       *)
(* number of times, to primary parameters drawn from bounded sets.         *)
(***************************************************************************)
MaxEpoch == 3

Strategies == {"tpu", "horovod", "gpus"}

PrimaryGrid ==
  { [BaseParams EXCEPT !.strategy = st, !.batch_size = bs, !.num_shards = ns,
                       !.num_examples_per_epoch = ne,
                       !.lr_warmup_epoch = RInt(we),
                       !.first_lr_drop_epoch = RInt(fe),
                       !.second_lr_drop_epoch = RInt(se),
                       !.num_epochs = RInt(MaxEpoch)] :
      st \in Strategies, bs \in {8, 64}, ns \in {1, 8}, ne \in {100, 120},
      we \in 0..1, fe \in 1..MaxEpoch, se \in 1..MaxEpoch }

InitParams ==
  /\ params \in PrimaryGrid
  /\ global_step = 0
  /\ pc = "update"
  /\ Idle

UpdateParams ==
  /\ pc \in {"update", "updated"}
  /\ params' = update_learning_rate_schedule_parameters(params)
  /\ pc' = "updated"
  /\ UNCHANGED <<model_name, invocationVars, ran, global_step, variableVars,
                 iterations>>

NextParams == UpdateParams

SpecParams == InitParams /\ [][NextParams]_vars

(***************************************************************************)
(* get_model_arch, get_model_fn.  A model name is the sequence of its      *)
(* dash-separated parts; 'x' in model_name is the occurrence of part x.    *)
(***************************************************************************)
Contains(name, part) == \E i \in 1..Len(name) : name[i] = part

get_model_arch(name) ==
  IF Contains(name, "retinanet") THEN [arch |-> "retinanet_arch.retinanet"]
  ELSE IF Contains(name, "efficientdet") THEN [arch |-> "efficientdet_arch.efficientdet"]
  ELSE ValueError("Invalide model name")

get_model_fn(name) ==
  IF Contains(name, "retinanet") THEN [fn |-> "retinanet_model_fn"]
  ELSE IF Contains(name, "efficientdet") THEN [fn |-> "efficientdet_model_fn"]
  ELSE ValueError("Invalide model name")

\* The architecture retinanet_model_fn / efficientdet_model_fn hand to _model_fn.
ModelOf(fn) ==
  IF fn = "retinanet_model_fn" THEN "retinanet_arch.retinanet"
  ELSE "efficientdet_arch.efficientdet"

(***************************************************************************)
(* Helpers of _model_fn.                                                   *)
(***************************************************************************)
\* Python truthiness of a string-valued or None parameter.
Truthy(x) == x # None /\ x # ""

\* Python truthiness of a float parameter.
NonZero(r) == r[1] # 0

\* str.lower()
Lower(str) ==
  IF str = "SGD" THEN "sgd"
  ELSE IF str = "Adam" THEN "adam"
  ELSE IF str = "ADAM" THEN "adam"
  ELSE str

\* cls_outputs.keys(): the pyramid levels of the architecture.
Levels(p) == p.min_level..p.max_level

predictions_no_box(features, levels) ==
  Update([image |-> features],
         [k \in {"cls_outputs_" \o ToString(l) : l \in levels} |-> "float32"])

\* The predictions dict of PREDICT mode.
predictions(features, levels) ==
  Update([image |-> features],
         [k \in {"cls_outputs_" \o ToString(l) : l \in levels}
                  \cup {"box_outputs_" \o ToString(l) : l \in levels} |-> "float32"])

\* hvd.size(): the number of horovod processes.
hvd_size(p) == p.num_shards

select_optimizer_default(p) ==
  IF Lower(p.optimizer) = "adam" THEN [optimizer |-> "AdamOptimizer"]
  ELSE [optimizer |-> "MomentumOptimizer"]

\* lines 398-401: the optimizer wrapped for the distribution strategy.
distributed_optimizer(p, optimizer) ==
  IF p.strategy = "tpu" THEN "CrossShardOptimizer(" \o optimizer \o ")"
  ELSE IF p.strategy = "horovod" THEN "DistributedOptimizer(" \o optimizer \o ")"
  ELSE optimizer

\* The optimizer chosen, or the ValueError.
select_optimizer(p) ==
  IF Lower(p.optimizer) = "sgd" THEN [optimizer |-> "MomentumOptimizer"]
  ELSE IF Lower(p.optimizer) = "adam" THEN [optimizer |-> "AdamOptimizer"]
  ELSE ValueError("optimizers should be adam or sgd")

ControlDependenciesDropped(first, op) == {}

\* with tf.control_dependencies(first): the edges first -> op.
ControlDependencies(first, op) == {<<f, op>> : f \in first}

\* The ops of the train op and their edges <<a, b>>: a runs before b.
TrainGraph(p) ==
  LET clip == p.clip_gradients_norm > 0
      ema == NonZero(p.moving_average_decay)
      grad_ops == IF clip THEN {"compute_gradients", "clip_by_global_norm"}
                  ELSE {"compute_gradients"}
      \* data edges: the gradients flow into the apply step
      grad_deps == IF clip
                     THEN {<<"compute_gradients", "clip_by_global_norm">>,
                           <<"clip_by_global_norm", "apply_gradients">>}
                     ELSE {<<"compute_gradients", "apply_gradients">>}
      \* optimizer.minimize builds the gradients inside the control scope too
      update_deps == ControlDependencies({"update_ops"}, "apply_gradients")
                     \cup (IF clip THEN {}
                           ELSE ControlDependencies({"update_ops"}, "compute_gradients"))
      ema_deps == IF ema THEN ControlDependencies({"apply_gradients"}, "ema_apply")
                  ELSE {}
  IN  [ops |-> {"update_ops", "apply_gradients"} \cup grad_ops
                 \cup (IF ema THEN {"ema_apply"} ELSE {}),
       deps |-> grad_deps \cup update_deps \cup ema_deps,
       train_op |-> IF ema THEN "ema_apply" ELSE "apply_gradients"]

RestoreScopes(p) ==
  IF Truthy(p.backbone_ckpt)
    THEN [var_scope |-> p.backbone_name \o "/",
          ckpt_scope |-> IF p.ckpt_var_scope = None
                           THEN p.backbone_name \o "/"
                           ELSE p.ckpt_var_scope \o "/"]
    ELSE [var_scope |-> "/", ckpt_scope |-> "/"]

scaffold_selection_no_conflict(m, p) ==
  LET checkpoint == IF Truthy(p.ckpt) THEN p.ckpt ELSE p.backbone_ckpt IN
  IF Truthy(checkpoint) /\ m = TRAIN
    THEN Update([scaffold |-> "restore_checkpoint", checkpoint |-> checkpoint],
                RestoreScopes(p))
  ELSE IF m = EVAL /\ NonZero(p.moving_average_decay)
    THEN [scaffold |-> "restore_ema"]
  ELSE NoValue

scaffold_selection_ema_first(m, p) ==
  LET checkpoint == IF Truthy(p.ckpt) THEN p.ckpt ELSE p.backbone_ckpt IN
  IF m # PREDICT /\ NonZero(p.moving_average_decay)
    THEN [scaffold |-> "restore_ema"]
  ELSE IF Truthy(checkpoint) /\ m = TRAIN
    THEN IF Truthy(p.ckpt) /\ Truthy(p.backbone_ckpt)
           THEN RuntimeError("--backbone_ckpt and --checkpoint are mutually exclusive")
           ELSE Update([scaffold |-> "restore_checkpoint", checkpoint |-> checkpoint],
                       RestoreScopes(p))
  ELSE NoValue

\* The scaffold_fn chosen (NoValue: scaffold_fn = None), or the RuntimeError.
scaffold_selection(m, p) ==
  LET checkpoint == IF Truthy(p.ckpt) THEN p.ckpt ELSE p.backbone_ckpt IN
  IF Truthy(checkpoint) /\ m = TRAIN
    THEN IF Truthy(p.ckpt) /\ Truthy(p.backbone_ckpt)
           THEN RuntimeError("--backbone_ckpt and --checkpoint are mutually exclusive")
           ELSE Update([scaffold |-> "restore_checkpoint", checkpoint |-> checkpoint],
                       RestoreScopes(p))
  ELSE IF m = EVAL /\ NonZero(p.moving_average_decay)
    THEN [scaffold |-> "restore_ema"]
  ELSE NoValue

\* tf.estimator.EstimatorSpec(mode=mode, predictions=predictions)
EstimatorSpec(m, preds) ==
  [mode |-> m, predictions |-> preds, loss |-> None, train_op |-> None,
   eval_metrics |-> None, scaffold_fn |-> NoValue, training_hooks |-> {}]

\* tf.estimator.tpu.TPUEstimatorSpec(...)
TPUEstimatorSpec(m, loss, train_op, eval_metrics, scaffold_fn, training_hooks) ==
  [mode |-> m, predictions |-> NoValue, loss |-> loss, train_op |-> train_op,
   eval_metrics |-> eval_metrics, scaffold_fn |-> scaffold_fn,
   training_hooks |-> training_hooks]

(***************************************************************************)
(* Spec: get_model_fn and _model_fn statement by statement, then the       *)
(* runtime running what the invocation returned.                           *)
(***************************************************************************)
ModelNames == { <<"efficientdet", "d0">>, <<"retinanet", "50">>, <<"resnet", "50">> }

ModelFnGrid ==
  { [BaseParams EXCEPT !.strategy = st, !.lr_decay_method = m, !.optimizer = o,
                       !.moving_average_decay = d, !.clip_gradients_norm = c,
                       !.ckpt = ck, !.backbone_ckpt = bk, !.ckpt_var_scope = sc] :
      st \in Strategies, m \in LrDecayMethods \cup {"exponential"},
      o \in {"sgd", "Adam", "rmsprop"}, d \in {RInt(0), Rat(9998, 10000)},
      c \in {0, 10}, ck \in {None, "/ckpt/efficientdet-d0"},
      bk \in {None, "/ckpt/efficientnet-b0"}, sc \in {None, "backbone"} }

Init ==
  /\ params \in ModelFnGrid
  /\ model_name \in ModelNames
  /\ pc = "idle"
  /\ global_step = 0
  /\ Fresh

Raise(err) ==
  /\ result' = err
  /\ pc' = "error"

\* main: model_fn = get_model_fn(model_name), then the estimator calls it with m.
Invoke(m) ==
  /\ pc = "idle"
  /\ mode' = m
  /\ LET r == get_model_fn(model_name) IN
       IF IsError(r)
         THEN Raise(r) /\ UNCHANGED model_fn
         ELSE model_fn' = r.fn /\ pc' = "forward" /\ UNCHANGED result
  /\ UNCHANGED <<params, model_name, trace, learning_rate, locals, ran, global_step,
                 variableVars, iterations>>

\* lines 334-348: the forward pass through the architecture, outputs cast.
ForwardPass ==
  /\ pc = "forward"
  /\ trace' = Append(trace, "forward:" \o ModelOf(model_fn))
  /\ pc' = "mode_check"
  /\ UNCHANGED <<params, model_name, model_fn, mode, learning_rate, locals, result,
                 ran, global_step, variableVars, iterations>>

\* lines 350-358
PredictReturn ==
  /\ pc = "mode_check"
  /\ mode = PREDICT
  /\ result' = EstimatorSpec(mode, predictions("features", Levels(params)))
  /\ pc' = "done"
  /\ UNCHANGED <<params, model_name, model_fn, mode, trace, learning_rate, locals,
                 ran, global_step, variableVars, iterations>>

\* lines 360-363
SetupLearningRate ==
  /\ pc = "mode_check"
  /\ mode # PREDICT
  /\ params' = update_learning_rate_schedule_parameters(params)
  /\ LET lr == learning_rate_schedule(params', global_step) IN
       IF IsError(lr)
         THEN Raise(lr) /\ UNCHANGED <<learning_rate, trace>>
         ELSE /\ learning_rate' = lr
              /\ trace' = Append(trace, "learning_rate")
              /\ pc' = "loss"
              /\ UNCHANGED result
  /\ UNCHANGED <<model_name, model_fn, mode, locals, ran, global_step, variableVars,
                 iterations>>

\* lines 365-379: detection_loss, reg_l2_loss, total_loss
ComputeLoss ==
  /\ pc = "loss"
  /\ trace' = Append(trace, "loss")
  /\ pc' = "scale"
  /\ UNCHANGED <<params, model_name, model_fn, mode, learning_rate, locals, result,
                 ran, global_step, variableVars, iterations>>

\* lines 381-388
ScaleLearningRate ==
  /\ pc = "scale"
  /\ learning_rate' =
       IF params.strategy = "horovod"
         THEN [rate |-> RMul(learning_rate.rate, RInt(hvd_size(params)))]
         ELSE learning_rate
  /\ pc' = "optimizer"
  /\ UNCHANGED <<params, model_name, model_fn, mode, trace, locals, result, ran,
                 global_step, variableVars, iterations>>

\* lines 389-433
BuildTrainOp ==
  /\ pc = "optimizer"
  /\ IF mode = TRAIN
       THEN LET o == select_optimizer(params)
                g == TrainGraph(params)
            IN  IF IsError(o)
                  THEN Raise(o) /\ UNCHANGED <<locals, trace>>
                  ELSE /\ locals' = [locals EXCEPT
                            !.optimizer = distributed_optimizer(params, o.optimizer),
                            !.ops = g.ops, !.deps = g.deps, !.train_op = g.train_op,
                            !.training_hooks =
                               IF params.strategy = "horovod"
                                 THEN {"BroadcastGlobalVariablesHook"} ELSE {}]
                       /\ trace' = trace \o <<o.optimizer, "gradients">>
                       /\ pc' = "eval_metrics"
                       /\ UNCHANGED result
       ELSE /\ locals' = [locals EXCEPT !.train_op = None]
            /\ pc' = "eval_metrics"
            /\ UNCHANGED <<trace, result>>
  /\ UNCHANGED <<params, model_name, model_fn, mode, learning_rate, ran, global_step,
                 variableVars, iterations>>

\* lines 435-486
BuildEvalMetrics ==
  /\ pc = "eval_metrics"
  /\ IF mode = EVAL
       THEN /\ params' = [params EXCEPT !.nms_configs.max_nms_inputs =
                                          "anchors.MAX_DETECTION_POINTS"]
            /\ locals' = [locals EXCEPT !.eval_metrics = "metric_fn"]
            /\ trace' = Append(trace, "generate_detections")
       ELSE UNCHANGED <<params, locals, trace>>
  /\ pc' = "checkpoint"
  /\ UNCHANGED <<model_name, model_fn, mode, learning_rate, result, ran,
                 global_step, variableVars, iterations>>

\* lines 488-529
SelectScaffold ==
  /\ pc = "checkpoint"
  /\ LET s == scaffold_selection(mode, params) IN
       IF IsError(s)
         THEN Raise(s) /\ UNCHANGED locals
         ELSE /\ locals' = [locals EXCEPT !.scaffold_fn = s]
              /\ pc' = "return"
              /\ UNCHANGED result
  /\ UNCHANGED <<params, model_name, model_fn, mode, trace, learning_rate, ran,
                 global_step, variableVars, iterations>>

\* lines 531-554
Return ==
  /\ pc = "return"
  /\ LET hooks == locals.training_hooks \cup
                    (IF params.strategy # "tpu"
                       THEN {"ProfilerHook", "OomReportingHook"} ELSE {})
     IN  result' = TPUEstimatorSpec(mode, "total_loss", locals.train_op,
                                    locals.eval_metrics, locals.scaffold_fn, hooks)
  /\ pc' = "done"
  /\ UNCHANGED <<params, model_name, model_fn, mode, trace, learning_rate, locals,
                 ran, global_step, variableVars, iterations>>

(***************************************************************************)
(* The runtime: one training iteration runs the train op and every op it   *)
(* depends on, each once, an op only after the ops it has an edge from.    *)
(***************************************************************************)
RECURSIVE Needed(_, _)
Needed(deps, ops) ==
  LET more == ops \cup {d[1] : d \in {e \in deps : e[2] \in ops}}
  IN  IF more = ops THEN ops ELSE Needed(deps, more)

CanRun(op) ==
  /\ pc = "done"
  /\ mode = TRAIN
  /\ op \in Needed(locals.deps, {result.train_op})
  /\ op \notin ran
  /\ \A d \in locals.deps : d[2] = op => d[1] \in ran
  /\ ran # {} \/ (global_step < MaxGlobalStep /\ iterations < MaxGlobalStep)

assign_add_twice(step) == step + 2

\* apply_gradients(grads_and_vars, global_step) increments global_step.
assign_add(step) == step + 1

RunUpdateOps ==
  /\ CanRun("update_ops")
  /\ ran' = ran \cup {"update_ops"}
  /\ bn_stats' = bn_stats + 1
  /\ UNCHANGED <<params, model_name, invocationVars, pc, global_step, weights,
                 ema_shadow, iterations>>

RunComputeGradients ==
  /\ CanRun("compute_gradients")
  /\ ran' = ran \cup {"compute_gradients"}
  /\ UNCHANGED <<params, model_name, invocationVars, pc, global_step, variableVars,
                 iterations>>

RunClipByGlobalNorm ==
  /\ CanRun("clip_by_global_norm")
  /\ ran' = ran \cup {"clip_by_global_norm"}
  /\ UNCHANGED <<params, model_name, invocationVars, pc, global_step, variableVars,
                 iterations>>

RunApplyGradients ==
  /\ CanRun("apply_gradients")
  /\ ran' = ran \cup {"apply_gradients"}
  /\ weights' = weights + 1
  /\ global_step' = assign_add(global_step)
  /\ UNCHANGED <<params, model_name, invocationVars, pc, bn_stats, ema_shadow,
                 iterations>>

RunEmaApply ==
  /\ CanRun("ema_apply")
  /\ ran' = ran \cup {"ema_apply"}
  /\ ema_shadow' = [v \in EmaVars |-> ema_shadow[v] + 1]
  /\ UNCHANGED <<params, model_name, invocationVars, pc, global_step, weights,
                 bn_stats, iterations>>

EndIteration ==
  /\ pc = "done"
  /\ mode = TRAIN
  /\ result.train_op \in ran
  /\ ran' = {}
  /\ iterations' = iterations + 1
  /\ UNCHANGED <<params, model_name, invocationVars, pc, global_step, variableVars>>

\* An evaluation run: the metric ops read the variables.
RunEval ==
  /\ pc = "done"
  /\ mode = EVAL
  /\ pc' = "evaluated"
  /\ UNCHANGED <<params, model_name, invocationVars, ran, global_step, variableVars,
                 iterations>>

\* A prediction run.
RunPredict ==
  /\ pc = "done"
  /\ mode = PREDICT
  /\ pc' = "predicted"
  /\ UNCHANGED <<params, model_name, invocationVars, ran, global_step, variableVars,
                 iterations>>

\* The session ends; the driver may call the estimator again.
EndSession ==
  /\ pc \in {"done", "error", "evaluated", "predicted"}
  /\ ran = {}
  /\ pc' = "idle"
  /\ model_fn' = None
  /\ mode' = None
  /\ trace' = <<>>
  /\ learning_rate' = NoValue
  /\ locals' = NoLocals
  /\ result' = NoValue
  /\ UNCHANGED <<params, model_name, ran, global_step, variableVars, iterations>>

Next ==
  \/ \E m \in ModeKeys : Invoke(m)
  \/ ForwardPass
  \/ PredictReturn
  \/ SetupLearningRate
  \/ ComputeLoss
  \/ ScaleLearningRate
  \/ BuildTrainOp
  \/ BuildEvalMetrics
  \/ SelectScaffold
  \/ Return
  \/ RunUpdateOps
  \/ RunComputeGradients
  \/ RunClipByGlobalNorm
  \/ RunApplyGradients
  \/ RunEmaApply
  \/ EndIteration
  \/ RunEval
  \/ RunPredict
  \/ EndSession

Spec == Init /\ [][Next]_vars

(***************************************************************************)
(* Tensors: a shape and the elements in row-major order.                   *)
(***************************************************************************)
RECURSIVE Prod(_)
Prod(s) == IF s = <<>> THEN 1 ELSE s[1] * Prod(Tail(s))

\* a + b over the least common denominator
RAddLcd(a, b) ==
  LET d == (a[2] \div GCD(a[2], b[2])) * b[2]
  IN  Rat(a[1] * (d \div a[2]) + b[1] * (d \div b[2]), d)

\* tf.add_n of a non-empty list, and the sum of a tensor's elements
RECURSIVE RSum(_)
RSum(s) == IF s = <<>> THEN RInt(0) ELSE RAddLcd(s[1], RSum(Tail(s)))

Tensor(shape, flat) == [shape |-> shape, flat |-> flat]

\* tf.reshape: the same elements in the same order; a dimension of -1 is inferred.
Reshape(t, shape) ==
  LET known == Prod([i \in DOMAIN shape |-> IF shape[i] = -1 THEN 1 ELSE shape[i]])
  IN  Tensor([i \in DOMAIN shape |->
                IF shape[i] = -1 THEN Len(t.flat) \div known ELSE shape[i]],
             t.flat)

\* tf.one_hot(indices, depth): an index outside 0..depth-1 gives a row of zeros.
one_hot(t, depth) ==
  Tensor(Append(t.shape, depth),
         [i \in 1..(Len(t.flat) * depth) |->
            IF t.flat[((i - 1) \div depth) + 1] = (i - 1) % depth THEN 1 ELSE 0])

\* tf.reduce_sum
reduce_sum(t) == RSum(t.flat)

(***************************************************************************)
(* focal_loss.  A logit is k * ln 3 for an integer k in -1..1, where the   *)
(* sigmoid is rational; the logarithms are rounded to three decimals.      *)
(***************************************************************************)
Ln2 == Rat(693, 1000)
Ln3 == Rat(1099, 1000)
Ln4Over3 == Rat(288, 1000)

logit(k) == RMul(RInt(k), Ln3)

\* tf.sigmoid
sigmoid(k) == IF k = 0 THEN Rat(1, 2) ELSE IF k > 0 THEN Rat(3, 4) ELSE Rat(1, 4)

\* tf.nn.sigmoid_cross_entropy_with_logits: max(x, 0) - x * z + log(1 + exp(-|x|))
sigmoid_cross_entropy_with_logits(z, k) ==
  LET x == logit(k)
      relu == IF k > 0 THEN x ELSE RInt(0)
      softplus == IF k = 0 THEN Ln2 ELSE Ln4Over3
  IN  RAdd(RSub(relu, RMul(x, z)), softplus)

\* One element of focal_loss (lines 172-183).
focal_loss_element(k, y, alpha, gamma, normalizer, label_smoothing) ==
  LET y_true == RInt(y)
      pred_prob == sigmoid(k)
      one_minus_y == RSub(RInt(1), y_true)
      p_t == RAdd(RMul(y_true, pred_prob), RMul(one_minus_y, RSub(RInt(1), pred_prob)))
      alpha_factor == RAdd(RMul(y_true, alpha), RMul(one_minus_y, RSub(RInt(1), alpha)))
      modulating_factor == RPow(RSub(RInt(1), p_t), gamma)
      smoothed == RAdd(RMul(y_true, RSub(RInt(1), label_smoothing)),
                       RMul(Rat(1, 2), label_smoothing))
      ce == sigmoid_cross_entropy_with_logits(smoothed, k)
  IN  RDiv(RMul(RMul(alpha_factor, modulating_factor), ce), normalizer)

focal_loss(y_pred, y_true, alpha, gamma, normalizer, label_smoothing) ==
  Tensor(y_pred.shape,
         [i \in 1..Len(y_pred.flat) |->
            focal_loss_element(y_pred.flat[i], y_true.flat[i], alpha, gamma,
                               normalizer, label_smoothing)])

(***************************************************************************)
(* _box_loss, _box_iou_loss                                                *)
(***************************************************************************)
RAbs(r) == <<Abs(r[1]), r[2]>>

\* tf.losses.huber_loss of one element, weighted by the mask.
huber_element(target, output, delta) ==
  LET err == RAbs(RSub(output, target))
      quadratic == IF RLt(delta, err) THEN delta ELSE err
      linear == RSub(err, quadratic)
  IN  IF target = RInt(0) THEN RInt(0)
      ELSE RAdd(RMul(Rat(1, 2), RMul(quadratic, quadratic)), RMul(delta, linear))

_box_loss(box_outputs, box_targets, num_positives, delta) ==
  LET normalizer == RMul(num_positives, RInt(4))
  IN  RDiv(RSum([i \in 1..Len(box_targets.flat) |->
                   huber_element(box_targets.flat[i], box_outputs.flat[i], delta)]),
           normalizer)

\* iou_utils.iou_loss is an external collaborator: iou is the tensor it returned.
_box_iou_loss(iou, num_positives) ==
  LET normalizer == RMul(num_positives, RInt(4))
  IN  RDiv(reduce_sum(iou), normalizer)

(***************************************************************************)
(* detection_loss                                                          *)
(***************************************************************************)
not_equal_background(target) == target # -1

\* tf.not_equal(labels['cls_targets_%d' % level], -2)
not_equal_ignore(target) == target # -2

\* cls_loss *= tf.cast(tf.expand_dims(mask, -1), tf.float32): the mask of an
\* anchor is broadcast over the class channels, the last dimension of cls_loss.
apply_mask(cls_loss, cls_targets) ==
  LET depth == cls_loss.shape[Len(cls_loss.shape)]
  IN  Tensor(cls_loss.shape,
             [i \in 1..Len(cls_loss.flat) |->
                RMul(cls_loss.flat[i],
                     IF not_equal_ignore(cls_targets.flat[((i - 1) \div depth) + 1])
                       THEN RInt(1) ELSE RInt(0))])

\* lines 243-275: the masked classification loss tensor of one level.
cls_loss_at_level(p, cls_output, cls_targets, num_positives_sum) ==
  LET onehot == one_hot(cls_targets, p.num_classes)
      s == onehot.shape
      cls_targets_at_level ==
        IF p.data_format = "channels_first"
          THEN Reshape(onehot, <<s[1], -1, s[3], s[4]>>)
          ELSE Reshape(onehot, <<s[1], s[2], s[3], -1>>)
      loss == focal_loss(cls_output, cls_targets_at_level, p.alpha, p.gamma,
                         num_positives_sum, p.label_smoothing)
      cls_loss ==
        IF p.data_format = "channels_first"
          THEN Reshape(loss, <<s[1], -1, s[3], s[4], p.num_classes>>)
          ELSE Reshape(loss, <<s[1], s[2], s[3], -1, p.num_classes>>)
  IN  apply_mask(cls_loss, cls_targets)

\* lines 289-298: the sums over the levels and the weighted total.
detection_loss_totals(p, cls_losses, box_losses, box_iou_losses) ==
  LET cls_loss == RSum(cls_losses)
      box_loss == IF box_losses # <<>> THEN RSum(box_losses) ELSE RInt(0)
      box_iou_loss == IF box_iou_losses # <<>> THEN RSum(box_iou_losses) ELSE RInt(0)
  IN  [total_loss |-> RAdd(cls_loss, RAdd(RMul(p.box_loss_weight, box_loss),
                                          RMul(p.iou_loss_weight, box_iou_loss))),
       cls_loss |-> cls_loss, box_loss |-> box_loss, box_iou_loss |-> box_iou_loss]

(***************************************************************************)
(* SpecLoss: detection_loss applied to labels and logits drawn from        *)
(* bounded sets, one pyramid level at a time.  Level 3 has MaxWidth        *)
(* anchors, level 4 has one; there is one image in the batch.              *)
(***************************************************************************)
MaxWidth == 2

LossLevels == <<3, 4>>

WidthAt(level) == IF level = 3 THEN MaxWidth ELSE 1

\* ignore, background, and the classes
ClassTargets == {-2, -1, 0, 1}

LogitValues == {-1, 1}

LossParamsGrid ==
  { Update([num_classes |-> 2, data_format |-> df, alpha |-> c.alpha,
            gamma |-> c.gamma, label_smoothing |-> c.label_smoothing,
            box_loss_weight |-> c.box_loss_weight, iou_loss_weight |-> RInt(1),
            iou_loss_type |-> c.iou_loss_type, delta |-> Rat(1, 10)],
           BaseParams) :
      df \in {"channels_last", "channels_first"},
      c \in { [alpha |-> Rat(1, 4), gamma |-> 2, label_smoothing |-> RInt(0),
               box_loss_weight |-> RInt(50), iou_loss_type |-> None],
              [alpha |-> Rat(1, 2), gamma |-> 0, label_smoothing |-> Rat(1, 5),
               box_loss_weight |-> RInt(0), iou_loss_type |-> "iou"] } }

\* The shape of a per-anchor tensor with the given number of channels per anchor.
ShapeAt(df, level, channels) ==
  IF df = "channels_first" THEN <<1, channels, WidthAt(level), 1>>
  ELSE <<1, WidthAt(level), 1, channels>>

\* The dataloader's box targets: zero unless the anchor is positive.
BoxTargetsFor(targets) ==
  [i \in 1..(Len(targets) * 4) |->
     IF targets[((i - 1) \div 4) + 1] >= 0 THEN Rat((i % 3) - 1, 2) ELSE RInt(0)]

LossInputs(p, t3, t4, o3, o4, mnp) ==
  LET df == p.data_format
      t == [l \in {3, 4} |-> IF l = 3 THEN t3 ELSE t4]
      o == [l \in {3, 4} |-> IF l = 3 THEN o3 ELSE o4]
  IN  [cls_outputs |-> [l \in {3, 4} |-> Tensor(ShapeAt(df, l, p.num_classes), o[l])],
       box_outputs |-> [l \in {3, 4} |->
                         Tensor(ShapeAt(df, l, 4), [i \in 1..(Len(t[l]) * 4) |-> Rat(1, 4)])],
       labels |-> [mean_num_positives |-> Tensor(<<1>>, <<mnp>>),
                   cls_targets |-> [l \in {3, 4} |-> Tensor(ShapeAt(df, l, 1), t[l])],
                   box_targets |-> [l \in {3, 4} |->
                                     Tensor(ShapeAt(df, l, 4), BoxTargetsFor(t[l]))]],
       iou |-> [l \in {3, 4} |-> Tensor(<<Len(t[l])>>, [i \in 1..Len(t[l]) |-> Rat(1, 2)])],
       num_positives_sum |-> NoValue, levels |-> <<>>, cls_loss |-> <<>>,
       cls_losses |-> <<>>, box_losses |-> <<>>, box_iou_losses |-> <<>>]

InitLoss ==
  /\ params \in LossParamsGrid
  /\ \E t3 \in [1..MaxWidth -> ClassTargets], o3 \in [1..(MaxWidth * params.num_classes) -> LogitValues],
        l4 \in {<<-2, 1, -1>>, <<0, -1, 1>>}, mnp \in {RInt(0), RInt(3)} :
       locals = LossInputs(params, t3, <<l4[1]>>, o3, Tail(l4), mnp)
  /\ pc = "detection_loss"
  /\ model_name = <<"efficientdet", "d0">>
  /\ model_fn = None
  /\ mode = TRAIN
  /\ trace = <<>>
  /\ learning_rate = NoValue
  /\ result = NoValue
  /\ ran = {}
  /\ global_step = 0
  /\ weights = 0
  /\ bn_stats = 0
  /\ ema_shadow = [v \in EmaVars |-> 0]
  /\ iterations = 0

lossFrame == <<params, model_name, model_fn, mode, trace, learning_rate, ran, global_step, variableVars, iterations>>

\* lines 236-237
BeginDetectionLoss ==
  /\ pc = "detection_loss"
  /\ locals' = [locals EXCEPT
        !.num_positives_sum = RAdd(reduce_sum(locals.labels.mean_num_positives), RInt(1)),
        !.levels = LossLevels]
  /\ pc' = "for_level"
  /\ UNCHANGED <<result, lossFrame>>

\* lines 242-287: one iteration of the loop over the levels
LevelDetectionLoss ==
  /\ pc = "for_level"
  /\ locals.levels # <<>>
  /\ LET level == Head(locals.levels)
         cls_loss == cls_loss_at_level(params, locals.cls_outputs[level],
                                       locals.labels.cls_targets[level],
                                       locals.num_positives_sum)
     IN  locals' = [locals EXCEPT
           !.levels = Tail(locals.levels),
           !.cls_loss = [l \in DOMAIN locals.cls_loss \cup {level} |->
                           IF l = level THEN cls_loss ELSE locals.cls_loss[l]],
           !.cls_losses = Append(locals.cls_losses, reduce_sum(cls_loss)),
           !.box_losses =
              IF NonZero(params.box_loss_weight)
                THEN Append(locals.box_losses,
                            _box_loss(locals.box_outputs[level],
                                      locals.labels.box_targets[level],
                                      locals.num_positives_sum, params.delta))
                ELSE locals.box_losses,
           !.box_iou_losses =
              IF Truthy(params.iou_loss_type)
                THEN Append(locals.box_iou_losses,
                            _box_iou_loss(locals.iou[level], locals.num_positives_sum))
                ELSE locals.box_iou_losses]
  /\ pc' = "for_level"
  /\ UNCHANGED <<result, lossFrame>>

\* lines 289-298
ReturnDetectionLoss ==
  /\ pc = "for_level"
  /\ locals.levels = <<>>
  /\ result' = detection_loss_totals(params, locals.cls_losses, locals.box_losses,
                                     locals.box_iou_losses)
  /\ pc' = "returned"
  /\ UNCHANGED <<locals, lossFrame>>

NextLoss == BeginDetectionLoss \/ LevelDetectionLoss \/ ReturnDetectionLoss

SpecLoss == InitLoss /\ [][NextLoss]_vars

(***************************************************************************)
(* reg_l2_loss.  A variable name is the sequence of its parts, chosen so   *)
(* that the regex r'.*(kernel|weight):0$' matches exactly the names whose  *)
(* last two parts are kernel or weight, then ":0".                         *)
(***************************************************************************)
\* var_match.match(v.name)
var_match(name) ==
  /\ Len(name) >= 2
  /\ name[Len(name)] = ":0"
  /\ name[Len(name) - 1] \in {"kernel", "weight"}

\* tf.nn.l2_loss(v): sum(v ** 2) / 2
l2_loss(value) == RDiv(RSum([i \in 1..Len(value) |-> RMul(value[i], value[i])]), RInt(2))

RECURSIVE SelectMatching(_)
SelectMatching(variables) ==
  IF variables = <<>> THEN <<>>
  ELSE IF var_match(Head(variables).name)
         THEN <<l2_loss(Head(variables).value)>> \o SelectMatching(Tail(variables))
         ELSE SelectMatching(Tail(variables))

\* tf.add_n: an empty list of inputs is rejected.
add_n(inputs) ==
  IF inputs = <<>> THEN ValueError("inputs must be a list of at least one Tensor")
  ELSE [value |-> RSum(inputs)]

reg_l2_loss(weight_decay, trainable_variables) ==
  LET sum == add_n(SelectMatching(trainable_variables))
  IN  IF IsError(sum) THEN sum ELSE [value |-> RMul(weight_decay, sum.value)]

(***************************************************************************)
(* SpecReg: reg_l2_loss evaluated over the trainable variables of a graph  *)
(* to which variables are added, renamed and removed.  Here weights is the *)
(* list tf.trainable_variables() returns, never empty once the forward     *)
(* pass has built the model.                                               *)
(***************************************************************************)
MaxVars == 3

VarNames ==
  { <<"conv/", "kernel", ":0">>, <<"dense/", "weight", ":0">>,
    <<"conv/", "bias", ":0">>, <<"bn/", "gamma", ":0">>,
    <<"dense/", "weight", "s", ":0">>, <<"bn/", "beta", ":0">>,
    <<"kernel", "/", "bias", ":0">> }

VarValues == { <<Rat(1, 2)>>, <<RInt(1), RInt(-2)>> }

NamesOf(variables) == { variables[i].name : i \in 1..Len(variables) }

InitReg ==
  /\ params = BaseParams
  /\ \E n \in VarNames, v \in VarValues : weights = <<[name |-> n, value |-> v]>>
  /\ pc = "graph"
  /\ global_step = 0
  /\ model_name = <<"efficientdet", "d0">>
  /\ model_fn = None
  /\ mode = TRAIN
  /\ trace = <<>>
  /\ learning_rate = NoValue
  /\ locals = NoLocals
  /\ result = NoValue
  /\ ran = {}
  /\ bn_stats = 0
  /\ ema_shadow = [v \in EmaVars |-> 0]
  /\ iterations = 0

regFrame == <<params, model_name, model_fn, mode, trace, learning_rate, locals, ran, global_step, bn_stats, ema_shadow, iterations>>

\* A trainable variable is created: graph names are unique.
AddVariable ==
  /\ Len(weights) < MaxVars
  /\ \E n \in VarNames \ NamesOf(weights), v \in VarValues :
       weights' = Append(weights, [name |-> n, value |-> v])
  /\ pc' = "graph"
  /\ result' = NoValue
  /\ UNCHANGED regFrame

\* The forward pass has built the model: at least one variable remains.
RemoveVariable ==
  /\ Len(weights) > 1
  /\ \E i \in 1..Len(weights) :
       weights' = SubSeq(weights, 1, i - 1) \o SubSeq(weights, i + 1, Len(weights))
  /\ pc' = "graph"
  /\ result' = NoValue
  /\ UNCHANGED regFrame

RenameVariable ==
  /\ \E i \in 1..Len(weights), n \in VarNames \ NamesOf(weights) :
       weights' = [weights EXCEPT ![i].name = n]
  /\ pc' = "graph"
  /\ result' = NoValue
  /\ UNCHANGED regFrame

\* lines 302-309
EvalRegL2Loss ==
  /\ pc = "graph"
  /\ result' = reg_l2_loss(params.weight_decay, weights)
  /\ pc' = IF IsError(result') THEN "error" ELSE "returned"
  /\ UNCHANGED <<weights, regFrame>>

NextReg == AddVariable \/ RemoveVariable \/ RenameVariable \/ EvalRegL2Loss

SpecReg == InitReg /\ [][NextReg]_vars

(***************************************************************************)
(* Claims about _model_fn and the runtime (Spec).                          *)
(***************************************************************************)
Returned == pc \in {"done", "evaluated", "predicted"}
Failed == pc = "error"

InTrace(e) == \E i \in 1..Len(trace) : trace[i] = e

ForwardEvents == {"forward:retinanet_arch.retinanet",
                  "forward:efficientdet_arch.efficientdet"}
OptimizerEvents == {"MomentumOptimizer", "AdamOptimizer"}

KnownModelName ==
  \E i \in 1..Len(model_name) : model_name[i] \in {"retinanet", "efficientdet"}
KnownLrMethod ==
  params.lr_decay_method \in {"stepwise", "cosine", "polynomial", "constant"}
KnownOptimizer == params.optimizer \in {"sgd", "SGD", "adam", "Adam", "ADAM"}

ConfigError == Failed /\ result.error = "ValueError"
ModelNameError == ConfigError /\ result.message = "Invalide model name"
LrMethodError ==
  ConfigError /\ result.message = "unknown lr_decay_method: " \o params.lr_decay_method
OptimizerError == ConfigError /\ result.message = "optimizers should be adam or sgd"

\* C2 as stated: an unknown optimizer, lr_decay_method or model name raises the
\* configuration error before the forward pass, the loss and any gradient step,
\* and no invocation with such a value completes without the error.
C2_AsStated ==
  /\ ConfigError => trace = <<>>
  /\ Returned => (KnownModelName /\ KnownLrMethod /\ KnownOptimizer)

\* C2 amended: an unknown model name makes get_model_fn (and get_model_arch)
\* raise before anything runs, in every mode.  An unknown lr_decay_method raises in TRAIN and EVAL
\* invocations only, after the forward pass and before the loss and any
\* gradient step.  An unknown optimizer raises in TRAIN invocations only, after
\* the forward pass, the schedule and the loss and before any gradient step is
\* built.  An invocation completes only with a known model name, in TRAIN and
\* EVAL only with a known lr_decay_method, and in TRAIN only with a known
\* optimizer.
C2_FailFast ==
  /\ ConfigError => (ModelNameError \/ LrMethodError \/ OptimizerError)
  /\ ModelNameError => (~KnownModelName /\ trace = <<>>)
  /\ IsError(get_model_arch(model_name)) <=> ~KnownModelName
  /\ LrMethodError =>
       /\ mode \in {TRAIN, EVAL}
       /\ ~KnownLrMethod
       /\ Len(trace) = 1 /\ trace[1] \in ForwardEvents
  /\ OptimizerError =>
       /\ mode = TRAIN
       /\ ~KnownOptimizer
       /\ Len(trace) = 3 /\ trace[1] \in ForwardEvents
       /\ trace[2] = "learning_rate" /\ trace[3] = "loss"
  /\ Returned =>
       /\ KnownModelName
       /\ mode # PREDICT => KnownLrMethod
       /\ mode = TRAIN => KnownOptimizer

\* The optimizer error raised after the forward pass and the loss.
C2_Witness ==
  /\ OptimizerError
  /\ InTrace("loss")
  /\ trace[1] \in ForwardEvents

BothCheckpoints == Truthy(params.ckpt) /\ Truthy(params.backbone_ckpt)
ConflictError == Failed /\ result.error = "RuntimeError"

\* C3 as stated: TRAIN with both ckpt and backbone_ckpt set fails with the
\* checkpoint-conflict error before any tensor computation (forward pass, loss,
\* optimizer and gradient construction); with at most one set there is no
\* conflict error.
C3_AsStated ==
  /\ ConflictError => (mode = TRAIN /\ BothCheckpoints /\ trace = <<>>)
  /\ (Returned /\ mode = TRAIN) => ~BothCheckpoints

\* C3 amended: TRAIN with both ckpt and backbone_ckpt set never completes: it
\* fails with the checkpoint-conflict error unless the model name, lr_decay_method
\* or optimizer error is raised first, and the conflict error is raised only
\* after the forward pass, the schedule, the loss and the optimizer and gradient
\* construction; with at most one of the two set, or in another mode, there is
\* no conflict error.
C3_Conflict ==
  /\ ConflictError =>
       /\ mode = TRAIN
       /\ BothCheckpoints
       /\ Len(trace) = 5
       /\ trace[1] \in ForwardEvents
       /\ trace[2] = "learning_rate"
       /\ trace[3] = "loss"
       /\ trace[4] \in OptimizerEvents
       /\ trace[5] = "gradients"
  /\ (Returned /\ mode = TRAIN) => ~BothCheckpoints
  /\ (Failed /\ mode = TRAIN /\ BothCheckpoints
        /\ KnownModelName /\ KnownLrMethod /\ KnownOptimizer) => ConflictError

\* The conflict error raised with the gradients already built.
C3_Witness ==
  /\ ConflictError
  /\ mode = TRAIN
  /\ BothCheckpoints
  /\ InTrace("gradients")

ScaffoldKind(r) ==
  IF "scaffold" \in DOMAIN r.scaffold_fn THEN r.scaffold_fn.scaffold ELSE None

EmaSet == params.moving_average_decay[1] # 0

\* C4: the scaffold of a returned spec: in TRAIN with exactly one checkpoint the
\* restore-from-checkpoint scaffold, also with moving_average_decay set; in EVAL
\* with moving_average_decay set the EMA-restore scaffold, also with a
\* checkpoint; none in PREDICT, in TRAIN without a checkpoint and in EVAL without
\* moving_average_decay.  A backbone checkpoint gets the live scope
\* backbone_name/ and the checkpoint scope ckpt_var_scope/ (backbone_name/ when
\* ckpt_var_scope is None); a full checkpoint gets / for both.
C4_Scaffold ==
  Returned =>
    /\ (mode = TRAIN /\ (Truthy(params.ckpt) \/ Truthy(params.backbone_ckpt))) =>
         /\ ScaffoldKind(result) = "restore_checkpoint"
         /\ Truthy(params.backbone_ckpt) =>
              /\ result.scaffold_fn.checkpoint = params.backbone_ckpt
              /\ result.scaffold_fn.var_scope = params.backbone_name \o "/"
              /\ params.ckpt_var_scope = None =>
                   result.scaffold_fn.ckpt_scope = params.backbone_name \o "/"
              /\ params.ckpt_var_scope # None =>
                   result.scaffold_fn.ckpt_scope = params.ckpt_var_scope \o "/"
         /\ Truthy(params.ckpt) =>
              /\ result.scaffold_fn.checkpoint = params.ckpt
              /\ result.scaffold_fn.var_scope = "/"
              /\ result.scaffold_fn.ckpt_scope = "/"
    /\ (mode = EVAL /\ EmaSet) => ScaffoldKind(result) = "restore_ema"
    /\ mode = PREDICT => result.scaffold_fn = NoValue
    /\ (mode = TRAIN /\ ~Truthy(params.ckpt) /\ ~Truthy(params.backbone_ckpt)) =>
         result.scaffold_fn = NoValue
    /\ (mode = EVAL /\ ~EmaSet) => result.scaffold_fn = NoValue

\* TRAIN with a backbone checkpoint, a checkpoint scope and EMA enabled.
C4_Witness ==
  /\ Returned
  /\ mode = TRAIN
  /\ Truthy(params.backbone_ckpt)
  /\ params.ckpt_var_scope # None
  /\ EmaSet
  /\ ScaffoldKind(result) = "restore_checkpoint"
  /\ result.scaffold_fn.ckpt_scope = "backbone/"

Training == pc = "done" /\ mode = TRAIN

\* C5: in every training iteration, with and without gradient clipping, the
\* update-ops have run before the gradient-apply step runs; with
\* moving_average_decay set the EMA apply runs only after the gradient-apply
\* step; the train op is the EMA apply when EMA is enabled and the
\* gradient-apply step otherwise, and it is the last op of the iteration.
C5_Ordering ==
  Training =>
    /\ "apply_gradients" \in ran => "update_ops" \in ran
    /\ "ema_apply" \in ran => ("apply_gradients" \in ran /\ EmaSet)
    /\ result.train_op = (IF EmaSet THEN "ema_apply" ELSE "apply_gradients")
    /\ result.train_op \in ran =>
         ran = {"update_ops", "compute_gradients", "apply_gradients"}
                 \cup (IF params.clip_gradients_norm > 0
                         THEN {"clip_by_global_norm"} ELSE {})
                 \cup (IF EmaSet THEN {"ema_apply"} ELSE {})

\* An iteration on the clipping path with EMA, the EMA apply having run.
C5_Witness ==
  /\ Training
  /\ params.clip_gradients_norm > 0
  /\ "clip_by_global_norm" \in ran
  /\ "ema_apply" \in ran

\* C5's other path: an iteration without clipping, the apply step having run.
C5_WitnessNoClip ==
  /\ Training
  /\ params.clip_gradients_norm = 0
  /\ "apply_gradients" \in ran

\* C6 as stated: the global step and the EMA shadow variables are the only
\* state that changes between steps.
C6_AsStated == [][UNCHANGED <<weights, bn_stats>>]_vars

\* C6 amended: the global step and the EMA shadow variables are not the only
\* state a TRAIN step changes: the optimizer step also writes the trainable
\* variables and the update-ops write the batch-norm statistics.  Each TRAIN
\* step increases the global step by exactly 1, written only by the optimizer
\* step, and, when EMA is enabled, updates each shadow variable exactly once,
\* written only by the EMA-apply step; EVAL and PREDICT invocations leave the
\* global step, the shadow variables, the trainable variables and the
\* statistics unchanged; the global step never decreases.
C6_CrossStepState ==
  [][ /\ global_step' >= global_step
      /\ global_step' # global_step =>
           /\ global_step' = global_step + 1
           /\ mode = TRAIN
           /\ "apply_gradients" \in ran' \ ran
           /\ weights' = weights + 1
      /\ ema_shadow' # ema_shadow =>
           /\ mode = TRAIN
           /\ EmaSet
           /\ "ema_apply" \in ran' \ ran
           /\ \A v \in EmaVars : ema_shadow'[v] = ema_shadow[v] + 1
      /\ mode \in {EVAL, PREDICT} =>
           UNCHANGED <<global_step, ema_shadow, weights, bn_stats>>
      /\ iterations' # iterations =>
           /\ iterations' = iterations + 1
           /\ global_step' = iterations'
           /\ \A v \in EmaVars :
                ema_shadow'[v] = (IF EmaSet THEN iterations' ELSE 0)
    ]_vars

\* Two training iterations completed with EMA enabled.
C6_Witness ==
  /\ Training
  /\ EmaSet
  /\ iterations = 2
  /\ global_step = 2
  /\ ema_shadow["kernel"] = 2
  /\ weights = 2

PredictionKeys ==
  {"image"} \cup {"cls_outputs_" \o ToString(l) : l \in params.min_level..params.max_level}
            \cup {"box_outputs_" \o ToString(l) : l \in params.min_level..params.max_level}

\* C7: the returned spec by mode.  PREDICT: the predictions are exactly the
\* image and one cls_outputs_<level> and one box_outputs_<level> per level, with
\* no loss, train op or eval metrics, and only the forward pass has run.  TRAIN:
\* the loss, a non-null train op, the training hooks, no eval metrics.  EVAL:
\* the loss and the eval metrics, a null train op.
C7_OutputContract ==
  Returned =>
    /\ mode = PREDICT =>
         /\ DOMAIN result.predictions = PredictionKeys
         /\ Cardinality(PredictionKeys)
              = 1 + 2 * (params.max_level - params.min_level + 1)
         /\ result.loss = None
         /\ result.train_op = None
         /\ result.eval_metrics = None
         /\ Len(trace) = 1 /\ trace[1] \in ForwardEvents
         /\ learning_rate = NoValue
         /\ locals = NoLocals
    /\ mode = TRAIN =>
         /\ result.loss # None
         /\ result.train_op # None
         /\ result.eval_metrics = None
         /\ result.predictions = NoValue
         /\ params.strategy = "horovod" <=>
              "BroadcastGlobalVariablesHook" \in result.training_hooks
         /\ params.strategy # "tpu" <=> "ProfilerHook" \in result.training_hooks
    /\ mode = EVAL =>
         /\ result.loss # None
         /\ result.eval_metrics # None
         /\ result.train_op = None
         /\ result.predictions = NoValue

\* A PREDICT invocation returned, though its lr_decay_method is unknown.
C7_Witness ==
  /\ Returned
  /\ mode = PREDICT
  /\ ~KnownLrMethod
  /\ "box_outputs_4" \in DOMAIN result.predictions

(***************************************************************************)
(* Claims about the schedule functions (SpecSched).                        *)
(***************************************************************************)
Scheduled(method) == pc = "scheduled" /\ params.lr_decay_method = method

Thresholds(p) == <<p.lr_warmup_step, p.first_lr_drop_step, p.second_lr_drop_step>>

Multipliers == <<RInt(1), Rat(1, 10), Rat(1, 100)>>

ReachedEntries(p, s) == {i \in 1..3 : Thresholds(p)[i] <= s}

HighestReached(p, s) ==
  CHOOSE i \in ReachedEntries(p, s) : \A j \in ReachedEntries(p, s) : j <= i

PiecewiseRate(p, s) ==
  RMul(p.adjusted_learning_rate, Multipliers[HighestReached(p, s)])

\* lr_warmup_init + s * (adjusted_learning_rate - lr_warmup_init) / lr_warmup_step
RampRate(p, s) ==
  RAdd(p.lr_warmup_init,
       Rat(s * RSub(p.adjusted_learning_rate, p.lr_warmup_init)[1],
           p.lr_warmup_step * RSub(p.adjusted_learning_rate, p.lr_warmup_init)[2]))

ExampleHolds ==
  (pc = "scheduled" /\ params = ExampleParams) =>
    /\ global_step = 0 => learning_rate.rate = RInt(0)
    /\ global_step = 500 => learning_rate.rate = Rat(8, 100)
    /\ global_step = 15000 => learning_rate.rate = Rat(8, 1000)
    /\ global_step = 20000 => learning_rate.rate = Rat(8, 10000)

\* C1 as stated: for lr_warmup_step > 0 and any order of the three thresholds,
\* at a step s >= lr_warmup_step the stepwise rate is adjusted_learning_rate times
\* the multiplier of the highest-indexed entry whose threshold is <= s, and at a
\* step s < lr_warmup_step it is the linear ramp; the example values hold.
C1_AsStated ==
  /\ (Scheduled("stepwise") /\ params.lr_warmup_step > 0) =>
       IF global_step >= params.lr_warmup_step
         THEN learning_rate.rate = PiecewiseRate(params, global_step)
         ELSE learning_rate.rate = RampRate(params, global_step)
  /\ ExampleHolds

\* C1 amended: at a step s that has reached any of the three thresholds (the
\* warmup step or a drop step, also a drop step below lr_warmup_step) the stepwise
\* rate is adjusted_learning_rate times the multiplier of the highest-indexed
\* entry whose threshold is <= s; only at a step below all three thresholds is
\* it the linear ramp; the example values hold.
C1_Stepwise ==
  /\ (Scheduled("stepwise") /\ params.lr_warmup_step > 0) =>
       IF ReachedEntries(params, global_step) # {}
         THEN learning_rate.rate = PiecewiseRate(params, global_step)
         ELSE learning_rate.rate = RampRate(params, global_step)
  /\ ExampleHolds

\* A drop threshold reached during warmup: the rate is the dropped rate.
C1_Witness ==
  /\ Scheduled("stepwise")
  /\ params.first_lr_drop_step <= global_step
  /\ global_step < params.second_lr_drop_step
  /\ global_step < params.lr_warmup_step
  /\ learning_rate.rate = RMul(params.adjusted_learning_rate, Rat(1, 10))
  /\ learning_rate.rate # RampRate(params, global_step)

\* C10 as stated: for lr_warmup_step > 0 and total_steps > lr_warmup_step the
\* cosine rate at step = lr_warmup_step equals adjusted_learning_rate and at
\* step = total_steps equals 0.
C10_AsStated ==
  (Scheduled("cosine") /\ params.lr_warmup_step > 0
     /\ params.total_steps > params.lr_warmup_step) =>
    /\ global_step = params.lr_warmup_step =>
         learning_rate.rate = params.adjusted_learning_rate
    /\ global_step = params.total_steps => learning_rate.rate = RInt(0)

\* C10 amended: for lr_warmup_step > 0 and total_steps > lr_warmup_step the
\* cosine rate at step = lr_warmup_step is
\* 0.5 * adjusted_learning_rate * (1 + cos(pi * lr_warmup_step / total_steps)),
\* strictly below adjusted_learning_rate (a half, three quarters, a quarter of it
\* when the warmup is a half, a third, two thirds of total_steps), and at
\* step = total_steps it equals 0.
C10_Cosine ==
  (Scheduled("cosine") /\ params.lr_warmup_step > 0
     /\ params.total_steps > params.lr_warmup_step) =>
    /\ global_step = params.lr_warmup_step =>
         /\ RLt(learning_rate.rate, params.adjusted_learning_rate)
         /\ RLt(RInt(0), learning_rate.rate)
         /\ 2 * params.lr_warmup_step = params.total_steps =>
              learning_rate.rate = RMul(Rat(1, 2), params.adjusted_learning_rate)
         /\ 3 * params.lr_warmup_step = params.total_steps =>
              learning_rate.rate = RMul(Rat(3, 4), params.adjusted_learning_rate)
         /\ 3 * params.lr_warmup_step = 2 * params.total_steps =>
              learning_rate.rate = RMul(Rat(1, 4), params.adjusted_learning_rate)
    /\ global_step = params.total_steps => learning_rate.rate = RInt(0)

\* The cosine rate evaluated at the warmup boundary, where it jumps to a half.
C10_Witness ==
  /\ Scheduled("cosine")
  /\ params.lr_warmup_step > 0
  /\ global_step = params.lr_warmup_step
  /\ 2 * params.lr_warmup_step = params.total_steps
  /\ learning_rate.rate = RMul(Rat(1, 2), params.adjusted_learning_rate)

(***************************************************************************)
(* Claims about the derived parameters (SpecParams).                       *)
(***************************************************************************)
Updated == pc = "updated"

DistributedBatchSize(p) ==
  IF p.strategy \in {"tpu", "horovod"} THEN p.batch_size * p.num_shards
  ELSE p.batch_size

TpuBatchSize(p) ==
  IF p.strategy = "tpu" THEN p.batch_size * p.num_shards ELSE p.batch_size

\* adjusted_learning_rate = learning_rate * b / 64, cross-multiplied.
AdjustedFor(p, b) ==
  p.adjusted_learning_rate[1] * 64 * p.learning_rate[2]
    = p.learning_rate[1] * b * p.adjusted_learning_rate[2]

\* C8 as stated: the effective batch size is batch_size * num_shards for every
\* distributed strategy (tpu, horovod) and batch_size otherwise, and
\* adjusted_learning_rate = learning_rate * effective batch size / 64.
C8_AsStated == Updated => AdjustedFor(params, DistributedBatchSize(params))

\* C8 amended: the effective batch size is batch_size * num_shards exactly when
\* strategy is tpu, and batch_size unchanged otherwise (horovod included);
\* adjusted_learning_rate = learning_rate * effective batch size / 64.
C8_EffectiveBatchSize == Updated => AdjustedFor(params, TpuBatchSize(params))

\* A horovod record with several shards, updated: the batch size is not scaled.
C8_Witness ==
  /\ Updated
  /\ params.strategy = "horovod"
  /\ params.num_shards > 1
  /\ AdjustedFor(params, params.batch_size)

StepFields ==
  { <<"lr_warmup_step", "lr_warmup_epoch">>,
    <<"first_lr_drop_step", "first_lr_drop_epoch">>,
    <<"second_lr_drop_step", "second_lr_drop_epoch">>,
    <<"total_steps", "num_epochs">> }

\* epoch_count * steps_per_epoch as a fraction num / den
ProductNum(p, f) == p[f[2]][1] * p.num_examples_per_epoch
ProductDen(p, f) == p[f[2]][2] * TpuBatchSize(p)

\* C9 as stated: every step field is the nearest integer to epoch_count *
\* steps_per_epoch (either neighbour at a tie), also when the product has a
\* fractional part of 0.5 or more.
C9_AsStated ==
  Updated =>
    \A f \in StepFields :
      LET k == params[f[1]] IN
        /\ (2 * k - 1) * ProductDen(params, f) <= 2 * ProductNum(params, f)
        /\ 2 * ProductNum(params, f) <= (2 * k + 1) * ProductDen(params, f)

\* C9 amended: every step field is int(epoch_count * steps_per_epoch), the
\* product truncated toward zero (rounded down), also when its fractional part
\* is 0.5 or more.
C9_Truncated ==
  Updated =>
    \A f \in StepFields :
      LET k == params[f[1]] IN
        /\ k * ProductDen(params, f) <= ProductNum(params, f)
        /\ ProductNum(params, f) < (k + 1) * ProductDen(params, f)

\* An updated record whose warmup product has a fractional part above 0.5.
C9_Witness ==
  /\ Updated
  /\ 2 * (ProductNum(params, <<"lr_warmup_step", "lr_warmup_epoch">>)
            % ProductDen(params, <<"lr_warmup_step", "lr_warmup_epoch">>))
       > ProductDen(params, <<"lr_warmup_step", "lr_warmup_epoch">>)
  /\ params.lr_warmup_step * ProductDen(params, <<"lr_warmup_step", "lr_warmup_epoch">>)
       < ProductNum(params, <<"lr_warmup_step", "lr_warmup_epoch">>)

(***************************************************************************)
(* Claims about detection_loss (SpecLoss).                                 *)
(***************************************************************************)
LossReturned == pc = "returned"

LevelsDone == DOMAIN locals.cls_loss

\* The class target of anchor m at a level, and its contribution to cls_loss
\* for class channel c.
TargetOf(level, m) == locals.labels.cls_targets[level].flat[m]
AnchorsAt(level) == 1..Len(locals.labels.cls_targets[level].flat)
ClassChannels == 1..params.num_classes
Contribution(level, m, c) ==
  locals.cls_loss[level].flat[(m - 1) * params.num_classes + c]

AllIgnored == \A level \in {3, 4} : \A m \in AnchorsAt(level) : TargetOf(level, m) = -2

\* C11: at every level, an anchor whose class target is the ignore sentinel -2
\* contributes exactly 0 to cls_loss in every class channel, whatever its
\* logits; an anchor with any other target is not masked (its focal loss, which
\* is positive, is kept); and when every class target of the batch is -2 the
\* returned cls_loss is exactly 0.
C11_IgnoredAnchors ==
  /\ \A level \in LevelsDone : \A m \in AnchorsAt(level) : \A c \in ClassChannels :
       IF TargetOf(level, m) = -2
         THEN Contribution(level, m, c) = <<0, 1>>
         ELSE Contribution(level, m, c)[1] > 0
  /\ pc = "for_level" =>
       /\ Len(locals.cls_losses) = Cardinality(LevelsDone)
       /\ \A level \in LevelsDone :
            (\A m \in AnchorsAt(level) : TargetOf(level, m) = -2)
              => locals.cls_losses[level - 2] = <<0, 1>>
  /\ (LossReturned /\ AllIgnored) => result.cls_loss = <<0, 1>>
  /\ (LossReturned /\ ~AllIgnored) => result.cls_loss[1] > 0

\* Every class target of the batch is -2, the logits are of both signs, and the
\* loss has been returned.
C11_Witness ==
  /\ LossReturned
  /\ AllIgnored
  /\ \E i, j \in 1..Len(locals.cls_outputs[3].flat) :
       locals.cls_outputs[3].flat[i] > 0 /\ locals.cls_outputs[3].flat[j] < 0

(***************************************************************************)
(* Claims about reg_l2_loss (SpecReg).                                     *)
(***************************************************************************)
RegEvaluated == pc \in {"returned", "error"}

\* The names of VarNames that end in kernel:0 or weight:0.
KernelOrWeightNames == { <<"conv/", "kernel", ":0">>, <<"dense/", "weight", ":0">> }

Matching == { i \in 1..Len(weights) : weights[i].name \in KernelOrWeightNames }

SumOfSquares(value) ==
  IF Len(value) = 1 THEN RMul(value[1], value[1])
  ELSE RAdd(RMul(value[1], value[1]), RMul(value[2], value[2]))

RECURSIVE PenaltySum(_)
PenaltySum(indices) ==
  IF indices = {} THEN RInt(0)
  ELSE LET i == CHOOSE j \in indices : TRUE
       IN  RAdd(RMul(Rat(1, 2), SumOfSquares(weights[i].value)),
                PenaltySum(indices \ {i}))

ExpectedRegLoss == RMul(params.weight_decay, PenaltySum(Matching))

\* C12 as stated: reg_l2_loss returns weight_decay times the sum of the L2
\* penalties of exactly the variables whose name matches kernel|weight (so
\* variables that do not match have no influence), and returns 0, without
\* failing, when no trainable variable matches.
C12_AsStated ==
  RegEvaluated => (~IsError(result) /\ result.value = ExpectedRegLoss)

\* What the code does: the stated value when at least one variable matches, and
\* the ValueError of tf.add_n when none does.
C12_EmptyRaises ==
  RegEvaluated =>
    IF Matching = {} THEN IsError(result) /\ result.error = "ValueError"
    ELSE ~IsError(result) /\ result.value = ExpectedRegLoss

\* reg_l2_loss has been evaluated on a model with biases only.
C12_Witness ==
  /\ RegEvaluated
  /\ weights # <<>>
  /\ \A i \in 1..Len(weights) : weights[i].name = <<"conv/", "bias", ":0">>

(***************************************************************************)
(* Claims about the parameter record across invocations (Spec).            *)
(***************************************************************************)
PrimaryFields ==
  {"batch_size", "num_shards", "strategy", "learning_rate", "num_examples_per_epoch",
   "lr_warmup_epoch", "first_lr_drop_epoch", "second_lr_drop_epoch", "num_epochs"}

DerivedFields ==
  {"adjusted_learning_rate", "lr_warmup_step", "first_lr_drop_step",
   "second_lr_drop_step", "total_steps"}

\* The step on which _model_fn applies update_learning_rate_schedule_parameters.
AppliesUpdate == pc = "mode_check" /\ mode \in {TRAIN, EVAL} /\ pc' # pc

InPredict == mode = PREDICT \/ mode' = PREDICT

\* C13: update_learning_rate_schedule_parameters, applied on every TRAIN or EVAL
\* invocation, never changes a primary field, changes nothing but the derived
\* fields, and once the derived fields are set every further application leaves
\* them as the first one set them; no step of a PREDICT invocation changes the
\* record.
C13_Idempotent ==
  [][ /\ \A k \in PrimaryFields : params'[k] = params[k]
      /\ DOMAIN params \subseteq DOMAIN params'
      /\ AppliesUpdate =>
           /\ DOMAIN params' = DOMAIN params \cup DerivedFields
           /\ \A k \in DOMAIN params \ DerivedFields : params'[k] = params[k]
      /\ DerivedFields \subseteq DOMAIN params =>
           \A k \in DerivedFields : params'[k] = params[k]
      /\ InPredict => params' = params ]_vars

\* A later invocation has applied the update again, after a training session
\* that had applied it before.
C13_Witness ==
  /\ pc = "loss"
  /\ mode = EVAL
  /\ global_step > 0
  /\ params.strategy = "tpu"
  /\ DerivedFields \subseteq DOMAIN params

====
